---- MODULE Spec2Model ----
(***************************************************************************)
(* The two example tools of the libgpiod Python bindings:                  *)
(*   bindings/python/examples/gpiodetect.py  (Chip Enumerator)             *)
(*   bindings/python/examples/gpiofind.py    (Line Locator)                *)
(* Each run is one pass over the entries of /dev/.  A step of the model is *)
(* one statement of the script; pc names the statement about to run.       *)
(* The gpiod library is the environment: whether an open succeeds and how  *)
(* a lookup without a match is represented are chosen when the call is     *)
(* made.                                                                   *)
(***************************************************************************)
EXTENDS Naturals, Sequences, FiniteSets

VARIABLES
    tool,        \* which script runs: "gpiodetect" or "gpiofind"
    argv,        \* sys.argv
    dir,         \* the entries os.scandir('/dev/') yields, in iteration order
    pos,         \* index in dir of the loop variable `entry` (0 before the first)
    pc,          \* the statement about to run
    chipOpen,    \* the set of entries (indices) whose chip handle is open
    lines,       \* the variable `lines` of gpiofind.py
    line,        \* the variable `line` of gpiofind.py
    stdout,      \* the lines printed so far
    pending,     \* the exception propagating out of the with block
    raised,      \* the unhandled exception that ended the run
    exitCode,    \* <<status>> once the process has exited, <<>> before
    classified,  \* history: the entries passed to is_gpiochip_device, in order
    openCalls,   \* history: the entries passed to gpiod.Chip, in order
    staleUse     \* history: a line reference was read while its chip was closed

vars == <<tool, argv, dir, pos, pc, chipOpen, lines, line, stdout, pending,
          raised, exitCode, classified, openCalls, staleUse>>

(***************************************************************************)
(* Bounds of the model.                                                    *)
(***************************************************************************)
MaxEntries == 3
MaxLines == 2

LineNames == {"SCL", "SDA"}
SearchNames == {"SDA"}

SeqsUpTo(S, n) == UNION {[1..k -> S] : k \in 0..n}

\* A directory entry: a path with its classification; a chip entry carries the
\* names of its lines, indexed by offset + 1.
NonChip == [isChip |-> FALSE, names |-> <<>>]
Entries == {NonChip} \cup {[isChip |-> TRUE, names |-> ns] : ns \in SeqsUpTo(LineNames, MaxLines)}
Directories == SeqsUpTo(Entries, MaxEntries)

\* Values of the Python variables.
None == [none |-> TRUE, items |-> <<>>]
Bulk(items) == [none |-> FALSE, items |-> items]
NoExit == <<>>
ExitStatus(n) == <<n>>

ChipName(i) == <<"gpiochip", i>>
ChipLabel(i) == <<"label", i>>
NumLines(i) == Len(dir[i].names)

\* The zero-based offsets of the chip's lines called name, ascending.
RECURSIVE OffsetsFrom(_, _, _)
OffsetsFrom(names, name, k) ==
    IF k > Len(names) THEN <<>>
    ELSE (IF names[k] = name THEN <<k - 1>> ELSE <<>>) \o OffsetsFrom(names, name, k + 1)
Offsets(names, name) == OffsetsFrom(names, name, 1)

\* chip.find_line(name, unique=True): the values it may return, or "raise".
FindLineResults(i, name) ==
    LET offs == Offsets(dir[i].names, name) IN
    IF Len(offs) = 0 THEN {None, Bulk(<<>>)}
    ELSE IF Len(offs) = 1 THEN {Bulk(<<[owner |-> i, offset |-> offs[1]]>>)}
    ELSE {}

Init ==
    /\ tool \in {"gpiodetect", "gpiofind"}
    /\ argv \in IF tool = "gpiodetect" THEN {<<tool>>}
                ELSE {<<tool>>} \cup {<<tool, n>> : n \in SearchNames}
    /\ dir \in Directories
    /\ pos = 0
    /\ pc = "for"
    /\ chipOpen = {}
    /\ lines = None
    /\ line = None
    /\ stdout = <<>>
    /\ pending = "none"
    /\ raised = "none"
    /\ exitCode = NoExit
    /\ classified = <<>>
    /\ openCalls = <<>>
    /\ staleUse = FALSE

(***************************************************************************)
(* The end of a run.  An exception nothing handles ends the interpreter    *)
(* with status 1 and a traceback on stderr; SystemExit(n) ends it with     *)
(* status n and no traceback.                                              *)
(***************************************************************************)
StatusOf(exc) == IF exc = "SystemExit(0)" THEN 0 ELSE 1
Unhandled(exc) == IF exc \in {"SystemExit(0)", "SystemExit(1)"} THEN "none" ELSE exc

Terminate(exc) ==
    /\ pc' = "done"
    /\ exitCode' = ExitStatus(StatusOf(exc))
    /\ raised' = Unhandled(exc)

\* for entry in os.scandir('/dev/'): the next entry.
ForNext ==
    /\ pc = "for"
    /\ pos < Len(dir)
    /\ pos' = pos + 1
    /\ pc' = "if"
    /\ UNCHANGED <<tool, argv, dir, chipOpen, lines, line, stdout, pending,
                   raised, exitCode, classified, openCalls, staleUse>>

\* for entry in os.scandir('/dev/'): the directory is exhausted.  gpiodetect
\* runs off the end of the script (status 0); gpiofind goes on to sys.exit(1).
ForEnd ==
    /\ pc = "for"
    /\ pos = Len(dir)
    /\ IF tool = "gpiodetect"
       THEN /\ pc' = "done"
            /\ exitCode' = ExitStatus(0)
       ELSE /\ pc' = "exit1"
            /\ UNCHANGED exitCode
    /\ UNCHANGED <<tool, argv, dir, pos, chipOpen, lines, line, stdout, pending,
                   raised, classified, openCalls, staleUse>>

\* if gpiod.is_gpiochip_device(entry.path):
IsGpiochipDevice ==
    /\ pc = "if"
    /\ classified' = Append(classified, pos)
    /\ pc' = IF dir[pos].isChip THEN "with" ELSE "for"
    /\ UNCHANGED <<tool, argv, dir, pos, chipOpen, lines, line, stdout, pending,
                   raised, exitCode, openCalls, staleUse>>

\* with gpiod.Chip(entry.path) as chip: the open succeeds and the block is entered.
ChipOpenOk ==
    /\ pc = "with"
    /\ openCalls' = Append(openCalls, pos)
    /\ chipOpen' = chipOpen \cup {pos}
    /\ pc' = IF tool = "gpiodetect" THEN "print" ELSE "find"
    /\ UNCHANGED <<tool, argv, dir, pos, lines, line, stdout, pending,
                   raised, exitCode, classified, staleUse>>

\* Mutant: the open error is caught and the loop goes on with the next entry.
ChipOpenFails_Skip ==
    /\ pc = "with"
    /\ openCalls' = Append(openCalls, pos)
    /\ raised' = "OSError(open)"
    /\ pc' = "for"
    /\ UNCHANGED <<tool, argv, dir, pos, chipOpen, lines, line, stdout, pending,
                   exitCode, classified, staleUse>>

\* with gpiod.Chip(entry.path) as chip: the open fails.  The error is raised
\* outside any with block and nothing catches it.
ChipOpenFails ==
    /\ pc = "with"
    /\ openCalls' = Append(openCalls, pos)
    /\ Terminate("OSError(open)")
    /\ UNCHANGED <<tool, argv, dir, pos, chipOpen, lines, line, stdout, pending,
                   classified, staleUse>>

\* Mutant: the chip's line is put in front of the output instead of after it.
PrintChip_Prepend ==
    /\ pc = "print"
    /\ tool = "gpiodetect"
    /\ stdout' = <<<<ChipName(pos), "[", ChipLabel(pos), "]", "(", NumLines(pos), "lines)">>>> \o stdout
    /\ pc' = "leave"
    /\ UNCHANGED <<tool, argv, dir, pos, chipOpen, lines, line, pending,
                   raised, exitCode, classified, openCalls, staleUse>>

\* gpiodetect: print('{} [{}] ({} lines)'.format(chip.name(), chip.label(),
\* chip.num_lines())), the last statement of the with block.
DetectLine(i) == <<ChipName(i), "[", ChipLabel(i), "]", "(", NumLines(i), "lines)">>

PrintChip ==
    /\ pc = "print"
    /\ tool = "gpiodetect"
    /\ stdout' = Append(stdout, DetectLine(pos))
    /\ pc' = "leave"
    /\ UNCHANGED <<tool, argv, dir, pos, chipOpen, lines, line, pending,
                   raised, exitCode, classified, openCalls, staleUse>>

\* gpiofind: lines = chip.find_line(sys.argv[1], unique=True).  sys.argv[1]
\* is evaluated first; the lookup raises when the name is not unique in the chip.
FindLine ==
    /\ pc = "find"
    /\ IF Len(argv) < 2
       THEN /\ pending' = "IndexError(argv)"
            /\ pc' = "leave"
            /\ UNCHANGED lines
       ELSE IF FindLineResults(pos, argv[2]) = {}
       THEN /\ pending' = "OSError(find_line)"
            /\ pc' = "leave"
            /\ UNCHANGED lines
       ELSE /\ lines' \in FindLineResults(pos, argv[2])
            /\ pc' = "test"
            /\ UNCHANGED pending
    /\ UNCHANGED <<tool, argv, dir, pos, chipOpen, line, stdout,
                   raised, exitCode, classified, openCalls, staleUse>>

\* if lines is not None: otherwise the with block ends.
NextAfterTest == IF lines # None THEN "first" ELSE "leave"

TestNotNone ==
    /\ pc = "test"
    /\ pc' = NextAfterTest
    /\ UNCHANGED <<tool, argv, dir, pos, chipOpen, lines, line, stdout, pending,
                   raised, exitCode, classified, openCalls, staleUse>>

\* Mutant: the with block ends after this statement, so the chip is closed
\* before the line is printed.
FirstLine_CloseEarly ==
    /\ pc = "first"
    /\ IF Len(lines.items) = 0
       THEN /\ pending' = "IndexError(to_list)"
            /\ pc' = "leave"
            /\ UNCHANGED <<line, chipOpen>>
       ELSE /\ line' = Bulk(<<lines.items[1]>>)
            /\ chipOpen' = chipOpen \ {pos}
            /\ pc' = "print"
            /\ UNCHANGED pending
    /\ UNCHANGED <<tool, argv, dir, pos, lines, stdout,
                   raised, exitCode, classified, openCalls, staleUse>>

\* line = lines.to_list()[0]: IndexError on an empty list.
FirstLine ==
    /\ pc = "first"
    /\ IF Len(lines.items) = 0
       THEN /\ pending' = "IndexError(to_list)"
            /\ pc' = "leave"
            /\ UNCHANGED line
       ELSE /\ line' = Bulk(<<lines.items[1]>>)
            /\ pc' = "print"
            /\ UNCHANGED pending
    /\ UNCHANGED <<tool, argv, dir, pos, chipOpen, lines, stdout,
                   raised, exitCode, classified, openCalls, staleUse>>

\* Mutant: the one-based index of the line is printed instead of its offset.
FindOutput_OneBased(ref) == <<ChipName(ref.owner), " ", ref.offset + 1>>

\* print('{} {}'.format(line.owner().name(), line.offset()))
FindOutput(ref) == <<ChipName(ref.owner), " ", ref.offset>>

PrintLine ==
    /\ pc = "print"
    /\ tool = "gpiofind"
    /\ stdout' = Append(stdout, FindOutput(line.items[1]))
    /\ staleUse' = (staleUse \/ line.items[1].owner \notin chipOpen)
    /\ pc' = "exit0"
    /\ UNCHANGED <<tool, argv, dir, pos, chipOpen, lines, line, pending,
                   raised, exitCode, classified, openCalls>>

\* Mutant: no sys.exit(0) after the print; the with block just ends.
SysExit0_Continue ==
    /\ pc = "exit0"
    /\ pc' = "leave"
    /\ UNCHANGED <<tool, argv, dir, pos, chipOpen, lines, line, stdout, pending,
                   raised, exitCode, classified, openCalls, staleUse>>

\* sys.exit(0) inside the with block: raises SystemExit(0).
SysExit0 ==
    /\ pc = "exit0"
    /\ pending' = "SystemExit(0)"
    /\ pc' = "leave"
    /\ UNCHANGED <<tool, argv, dir, pos, chipOpen, lines, line, stdout,
                   raised, exitCode, classified, openCalls, staleUse>>

\* Mutant: leaving the block does not close the chip.
Released_Keep(open, i) == open

\* Mutant: the chip is closed at the end of the block only, not when an
\* exception leaves it (a close() call in place of the with statement).
ChipExit_NoReleaseOnError ==
    /\ pc = "leave"
    /\ IF pending = "none"
       THEN /\ pc' = "for"
            /\ chipOpen' = chipOpen \ {pos}
            /\ UNCHANGED <<raised, exitCode>>
       ELSE /\ Terminate(pending)
            /\ UNCHANGED chipOpen
    /\ UNCHANGED <<tool, argv, dir, pos, lines, line, stdout, pending,
                   classified, openCalls, staleUse>>

\* Mutant: the block's exit suppresses the exception and the loop goes on.
ChipExit_Suppress ==
    /\ pc = "leave"
    /\ chipOpen' = chipOpen \ {pos}
    /\ pc' = "for"
    /\ pending' = "none"
    /\ UNCHANGED <<tool, argv, dir, pos, lines, line, stdout, raised, exitCode,
                   classified, openCalls, staleUse>>

\* The end of the with block, reached normally or by an exception:
\* Chip.__exit__ closes the chip; an exception then goes on to end the run.
Released(open, i) == open \ {i}

ChipExit ==
    /\ pc = "leave"
    /\ chipOpen' = Released(chipOpen, pos)
    /\ IF pending = "none"
       THEN /\ pc' = "for"
            /\ UNCHANGED <<raised, exitCode>>
       ELSE Terminate(pending)
    /\ UNCHANGED <<tool, argv, dir, pos, lines, line, stdout, pending,
                   classified, openCalls, staleUse>>

\* Mutant: the script ends with sys.exit(0) after the loop.
SysExit1_Status0 ==
    /\ pc = "exit1"
    /\ Terminate("SystemExit(0)")
    /\ UNCHANGED <<tool, argv, dir, pos, chipOpen, lines, line, stdout, pending,
                   classified, openCalls, staleUse>>

\* sys.exit(1) after the loop.
SysExit1 ==
    /\ pc = "exit1"
    /\ Terminate("SystemExit(1)")
    /\ UNCHANGED <<tool, argv, dir, pos, chipOpen, lines, line, stdout, pending,
                   classified, openCalls, staleUse>>

Next ==
    \/ ForNext
    \/ ForEnd
    \/ IsGpiochipDevice
    \/ ChipOpenOk
    \/ ChipOpenFails
    \/ PrintChip
    \/ FindLine
    \/ TestNotNone
    \/ FirstLine
    \/ PrintLine
    \/ SysExit0
    \/ ChipExit
    \/ SysExit1

Spec == Init /\ [][Next]_vars

\* One thread runs the script to its end: no statement waits for anything.
FairSpec == Spec /\ WF_vars(Next)

(***************************************************************************)
(* Vocabulary of the properties.                                           *)
(***************************************************************************)
Iota(n) == [i \in 1..n |-> i]

\* The entries among the first n that are GPIO chips, in iteration order.
RECURSIVE ChipsUpTo(_)
ChipsUpTo(n) ==
    IF n = 0 THEN <<>>
    ELSE ChipsUpTo(n - 1) \o (IF dir[n].isChip THEN <<n>> ELSE <<>>)

\* Every <<chip, offset>> at which a line called name exists.
Occurrences(name) ==
    UNION {{<<i, k>> : k \in {o \in 0..(Len(dir[i].names) - 1) : dir[i].names[o + 1] = name}} :
           i \in {j \in 1..Len(dir) : dir[j].isChip}}

\* The output lines the tools are to print: '<chip-name> <offset>' and
\* '<name> [<label>] (<count> lines)'.
LocatorLine(i, k) == <<ChipName(i), " ", k>>
EnumeratorLine(i) == <<ChipName(i), "[", ChipLabel(i), "]", "(", Len(dir[i].names), "lines)">>

Locating == tool = "gpiofind" /\ Len(argv) >= 2
Done == pc = "done"
Matched == lines # None /\ Len(lines.items) > 0

\* The run states of the Line Locator.
RunState ==
    IF pc # "done" THEN "SCANNING"
    ELSE IF raised # "none" THEN "ABORTED"
    ELSE IF exitCode = ExitStatus(0) THEN "REPORTED_SUCCESS"
    ELSE "REPORTED_FAILURE"

(***************************************************************************)
(* C1                                                                      *)
(***************************************************************************)
\* C1 as stated: whenever the searched name exists exactly once, in one
\* recognized chip at offset k, the finished run has exit code 0 and stdout
\* is the one line '<chip-name> k'.
C1_AlwaysFound ==
    (Locating /\ Done /\ Cardinality(Occurrences(argv[2])) = 1) =>
        \E o \in Occurrences(argv[2]) :
            /\ exitCode = ExitStatus(0)
            /\ stdout = <<LocatorLine(o[1], o[2])>>

\* C1 amended: with the searched name existing exactly once, in one recognized
\* chip at offset k, the run ends with exit code 0 and stdout '<chip-name> k'
\* unless an open of a chip up to and including that one failed or an earlier
\* chip's lookup returned an empty collection; then it ended with the
\* unhandled error, exit code 1 and empty stdout, at or before that chip.
C1_FoundUnlessError ==
    (Locating /\ Done /\ Cardinality(Occurrences(argv[2])) = 1) =>
        \E o \in Occurrences(argv[2]) :
            IF raised = "none"
            THEN /\ exitCode = ExitStatus(0)
                 /\ stdout = <<LocatorLine(o[1], o[2])>>
                 /\ pos = o[1]
            ELSE /\ raised \in {"OSError(open)", "IndexError(to_list)"}
                 /\ raised = "IndexError(to_list)" => pos < o[1]
                 /\ pos <= o[1]
                 /\ exitCode = ExitStatus(1)
                 /\ stdout = <<>>

\* A match at offset 1 of the third entry, after a chip and one more entry.
C1_Witness ==
    /\ Locating /\ Done
    /\ Cardinality(Occurrences(argv[2])) = 1
    /\ exitCode = ExitStatus(0)
    /\ pos = 3
    /\ Len(openCalls) >= 2
    /\ <<3, 1>> \in Occurrences(argv[2])

(***************************************************************************)
(* C2                                                                      *)
(***************************************************************************)
\* C2 as stated: when no recognized chip has a line of the searched name, the
\* finished run classified every directory entry, printed nothing and has
\* exit code 1.
C2_AlwaysScansAll ==
    (Locating /\ Done /\ Occurrences(argv[2]) = {}) =>
        /\ classified = Iota(Len(dir))
        /\ stdout = <<>>
        /\ exitCode = ExitStatus(1)

\* C2 amended: when no recognized chip has a line of the searched name, the
\* run prints nothing and ends with exit code 1; it has scanned every entry
\* and opened every chip unless an open failed or a lookup returned an empty
\* collection, which ends the run at that entry with the unhandled error.
C2_NoMatchExit1 ==
    (Locating /\ Done /\ Occurrences(argv[2]) = {}) =>
        /\ stdout = <<>>
        /\ exitCode = ExitStatus(1)
        /\ classified = Iota(pos)
        /\ openCalls = ChipsUpTo(pos)
        /\ IF raised = "none"
           THEN pos = Len(dir)
           ELSE raised \in {"OSError(open)", "IndexError(to_list)"} /\ dir[pos].isChip

\* Three entries, two of them chips, none with the name, all scanned.
C2_Witness ==
    /\ Locating /\ Done
    /\ Occurrences(argv[2]) = {}
    /\ raised = "none"
    /\ Len(classified) = 3
    /\ Len(openCalls) = 2

(***************************************************************************)
(* C3                                                                      *)
(***************************************************************************)
\* C3: from the moment a lookup yields a match at chip m, the entries
\* classified are exactly the first m, the opens are exactly the chips among
\* the first m, and m is the first chip that has the searched name.
StoppedAt(m) ==
    /\ classified = Iota(m)
    /\ openCalls = ChipsUpTo(m)
    /\ pos = m
    /\ \A o \in Occurrences(argv[2]) : o[1] >= m

C3_StopsAtFirstMatch ==
    tool = "gpiofind" =>
        /\ Matched => StoppedAt(lines.items[1].owner)
        /\ line # None => StoppedAt(line.items[1].owner)

\* The run ended on a match in the second entry, with a chip after it that
\* also has the name.
C3_Witness ==
    /\ tool = "gpiofind" /\ Done /\ line # None
    /\ line.items[1].owner = 2
    /\ Len(openCalls) = 2
    /\ \E o \in Occurrences(argv[2]) : o[1] = 3

(***************************************************************************)
(* C4                                                                      *)
(***************************************************************************)
\* C4: gpiodetect's output is, at every moment, the formatted lines of the
\* chips whose with block has printed, in the order they were opened; a run
\* that ends without a failed open has printed exactly one line per chip
\* entry of the directory, in iteration order, and nothing for other entries.
C4_OneLinePerChip ==
    tool = "gpiodetect" =>
        /\ Len(stdout) <= Len(openCalls)
        /\ \A j \in 1..Len(stdout) : stdout[j] = EnumeratorLine(openCalls[j])
        /\ (Done /\ raised = "none") =>
              /\ openCalls = ChipsUpTo(Len(dir))
              /\ Len(stdout) = Len(openCalls)

\* Chip, non-chip, chip: two lines printed.
C4_Witness ==
    /\ tool = "gpiodetect" /\ Done /\ raised = "none"
    /\ Len(dir) = 3
    /\ dir[1].isChip /\ ~dir[2].isChip /\ dir[3].isChip
    /\ Len(stdout) = 2

(***************************************************************************)
(* C5                                                                      *)
(***************************************************************************)
\* C5: at most one chip handle is open, it is the current entry's, and none
\* is open while the loop fetches, classifies or opens an entry.
C5_OneHandleAtATime ==
    /\ Cardinality(chipOpen) <= 1
    /\ chipOpen \subseteq {pos}
    /\ pc \in {"for", "if", "with", "exit1"} => chipOpen = {}

\* The second chip has just been opened, after the first one was.
C5_Witness ==
    /\ Len(openCalls) = 2
    /\ chipOpen = {pos}
    /\ pc \in {"find", "print"}

(***************************************************************************)
(* C6                                                                      *)
(***************************************************************************)
\* C6: when the run has ended, by sys.exit(0) inside the with block, by
\* sys.exit(1) after the loop, by running off the end of the script or by an
\* unhandled error, no chip handle is open.
C6_AllReleasedAtExit == Done => chipOpen = {}

\* The run ended by an error raised by the lookup on an open chip.
C6_Witness ==
    /\ Done
    /\ raised = "OSError(find_line)"
    /\ openCalls # <<>>

(***************************************************************************)
(* C7                                                                      *)
(***************************************************************************)
\* C7 as stated: a finished gpiofind run is in REPORTED_SUCCESS or in
\* REPORTED_FAILURE.
C7_TwoTerminalStates ==
    (tool = "gpiofind" /\ Done) => RunState \in {"REPORTED_SUCCESS", "REPORTED_FAILURE"}

\* C7 amended: every gpiofind run starts in SCANNING and terminates in exactly
\* one of three terminal states: REPORTED_SUCCESS (a match was found and
\* printed), REPORTED_FAILURE (the directory was exhausted) or ABORTED (an
\* unhandled error of an open or a lookup); no step leaves a terminal state.
C7_ThreeTerminalStates ==
    /\ tool = "gpiofind" => RunState = "SCANNING"
    /\ [][(tool = "gpiofind" /\ RunState # "SCANNING") => RunState' = RunState]_vars
    /\ [](tool = "gpiofind" =>
            /\ RunState = "REPORTED_SUCCESS" => (line # None /\ Len(stdout) = 1)
            /\ RunState = "REPORTED_FAILURE" =>
                  (pos = Len(dir) /\ classified = Iota(Len(dir)) /\ stdout = <<>>)
            /\ RunState = "ABORTED" => stdout = <<>>)
    /\ <>(tool = "gpiofind" => RunState # "SCANNING")

\* A run that ended ABORTED after scanning an entry.
C7_Witness ==
    /\ tool = "gpiofind"
    /\ RunState = "ABORTED"
    /\ pos >= 2

(***************************************************************************)
(* C8                                                                      *)
(***************************************************************************)
\* What C8 and its amendment share: a failed open ends the run at once, the
\* device was opened once, nothing after it was classified or opened, no
\* handle is open and the exit status is not 0.
OpenFailureEndsRun ==
    /\ Done
    /\ dir[pos].isChip
    /\ classified = Iota(pos)
    /\ openCalls = ChipsUpTo(pos)
    /\ chipOpen = {}
    /\ exitCode # ExitStatus(0)

\* C8 as stated: a failed open ends the run, and the exit status is neither
\* the success status nor the Line Locator's no-match status 1.
C8_NotNoMatchStatus ==
    raised = "OSError(open)" =>
        /\ OpenFailureEndsRun
        /\ tool = "gpiofind" => exitCode # ExitStatus(1)

\* C8 amended: a failed open is propagated and ends the run: the device is not
\* opened a second time, no later entry is classified or opened, and the run
\* does not end with the success status; it ends with the status 1 of an
\* unhandled error, which is also the number of the no-match status, without
\* the Line Locator having printed anything.
C8_OpenFailurePropagates ==
    raised = "OSError(open)" =>
        /\ OpenFailureEndsRun
        /\ exitCode = ExitStatus(1)
        /\ tool = "gpiofind" => stdout = <<>>

\* The second chip's open failed, with an entry left in the directory.
C8_Witness ==
    /\ raised = "OSError(open)"
    /\ Len(openCalls) = 2
    /\ pos < Len(dir)

(***************************************************************************)
(* C9                                                                      *)
(***************************************************************************)
\* C9: gpiofind reports success only for a non-empty lookup result, whose
\* first element it prints; a lookup that returns None or an empty
\* collection raises nothing and the scan goes on.
C9_EmptyResultSkipped ==
    tool = "gpiofind" =>
        /\ stdout # <<>> => (Matched /\ stdout = <<LocatorLine(lines.items[1].owner, lines.items[1].offset)>>)
        /\ pc = "first" => lines # None
        /\ (lines # None /\ Len(lines.items) = 0) => (pending = "none" /\ raised = "none")

(***************************************************************************)
(* C10                                                                     *)
(***************************************************************************)
\* C10: a line reference is read only while the chip it came from is open,
\* and while the run goes on every line reference held in `lines` or `line`
\* belongs to an open chip.
C10_LineUsedWhileOpen ==
    /\ ~staleUse
    /\ (~Done /\ Matched) => lines.items[1].owner \in chipOpen
    /\ (~Done /\ line # None) => line.items[1].owner \in chipOpen

\* The line was printed and the chip has not been closed yet.
C10_Witness ==
    /\ tool = "gpiofind"
    /\ pc = "exit0"
    /\ stdout # <<>>
    /\ chipOpen = {line.items[1].owner}

====
